---- MODULE Spec2Model ----
(***************************************************************************)
(* The fixed-point solver of nux/util/fixed_point.py as a state machine.   *)
(*                                                                         *)
(* Numbers.  An iterate is a flat vector (what ravel_pytree returns) of   *)
(* dyadic rationals, each stored as an integer count of 1/Scale.  All the  *)
(* update functions drawn below map the grid to itself exactly, and every  *)
(* value they produce is exactly representable in float32, so the integer  *)
(* arithmetic here is the arithmetic the program performs.                 *)
(***************************************************************************)
EXTENDS Integers, Sequences, FiniteSets, TLC

(***************************************************************************)
(* Bounds of the model.                                                    *)
(***************************************************************************)
\* Largest max_iters drawn for the generic update functions.
MaxIters == 3

\* Grid resolution: one unit is 2^-20.
Scale == 2^20

\* atol = 1e-5, kept as its inverse.  jnp.allclose is called with atol only,
\* so its default rtol = 1e-5 applies as well and has the same inverse.
atol_inv == 100000

\* The generous max_iters of the documented contraction example.
BigIters == 100

\* A max_iters large enough for the slowest contraction drawn (slope 15/16).
HugeIters == 200

Abs(a) == IF a < 0 THEN -a ELSE a

(***************************************************************************)
(* Update functions.  A user function f(u, x, *nondiff_args) is a record:  *)
(*   kind = "table":  f = tab applied elementwise to x (u, extras unused)  *)
(*   kind = "affine": f = (num/den) * x + u + 2*extra[1] + 3*extra[2]      *)
(*   kind = "leaky":  as affine, but with half the slope where x < 0       *)
(* The table kind lets f be ANY function on a four-point set of values.    *)
(***************************************************************************)
Six == 6 * Scale
\* 0 and 8 differ by less than atol; Six and Six+48 differ by more than atol
\* but less than atol + rtol*|Six|; 0 and Six are far apart.
Dom == {0, 8, Six, Six + 48}

Tables == [Dom -> Dom]
IdTab == [d \in Dom |-> d]

TableFn(t) == [kind |-> "table", tab |-> t, num |-> 1, den |-> 1]
AffineFn(n, d) == [kind |-> "affine", tab |-> IdTab, num |-> n, den |-> d]
LeakyFn(n, d) == [kind |-> "leaky", tab |-> IdTab, num |-> n, den |-> d]

RECURSIVE ExtraSum(_, _)
ExtraSum(extra, k) ==
  IF k > Len(extra) THEN 0 ELSE (k + 1) * extra[k] + ExtraSum(extra, k + 1)

\* The derivative of f with respect to x at the element value xv, as a
\* fraction.  f acts elementwise, so its Jacobian is diagonal.
Slope(fn, xv) ==
  IF fn.kind = "leaky" /\ xv < 0
    THEN [num |-> fn.num, den |-> 2 * fn.den]
    ELSE [num |-> fn.num, den |-> fn.den]

\* One evaluation f(u, x, *extra) of the user function.
CallF(fn, uu, xx, extra) ==
  [k \in DOMAIN xx |->
     IF fn.kind = "table"
       THEN fn.tab[xx[k]]
       ELSE (fn.num * xx[k]) \div Slope(fn, xx[k]).den + uu + ExtraSum(extra, 1)]

\* The unary function the solver iterates: a closure over u and the extras.
Closure(fn, uu, extra) == [fn |-> fn, u |-> uu, extra |-> extra]

RECURSIVE SumFrom(_, _)
SumFrom(v, k) == IF k > Len(v) THEN 0 ELSE v[k] + SumFrom(v, k + 1)

\* jax.vjp(lambda x: f(u, x, *nondiff_args), x)[1] at the point xs: zeta is
\* multiplied elementwise by df/dx taken at xs.
vjp_x(fn, uu, extra, xs, zeta) ==
  [k \in DOMAIN zeta |->
     (Slope(fn, xs[k]).num * zeta[k]) \div Slope(fn, xs[k]).den]

\* jax.vjp(lambda u: f(u, x, *nondiff_args), u)[1] at the point xs: u is a
\* scalar added to every element, so its cotangent is the sum of zeta.
vjp_u(fn, uu, extra, xs, zeta) == SumFrom(zeta, 1)

\* jax.tree_multimap(lambda x, y: x + y, a, b).
tree_add(a, b) == [k \in DOMAIN a |-> a[k] + b[k]]

\* rev_iter of fixed_point_rev, a closure over dLdx and vjp_x (itself a
\* closure over f, u, the extras and the point x the residual stored).
RevClosure(fn, uu, extra, xs, cot) ==
  [fn |-> fn, u |-> uu, extra |-> extra, at |-> xs, dLdx |-> cot]

\* Mutant of rev_iter: dLdx is not added.
rev_iter_no_cotangent(gg, zeta) ==
  vjp_x(gg.fn, gg.u, gg.extra, gg.at, zeta)

rev_iter(gg, zeta) ==
  tree_add(gg.dLdx, vjp_x(gg.fn, gg.u, gg.extra, gg.at, zeta))

IsRev(gg) == "dLdx" \in DOMAIN gg

Apply(gg, xx) ==
  IF IsRev(gg) THEN rev_iter(gg, xx) ELSE CallF(gg.fn, gg.u, xx, gg.extra)

\* f(x) = 0.5 x + 3 and f(x) = 2 x + 1, the two maps the documentation names.
HalfPlus3 == Closure(AffineFn(1, 2), 3 * Scale, <<>>)
DoublePlus1 == Closure(AffineFn(2, 1), Scale, <<>>)

(***************************************************************************)
(* cond_fun and body_fun of _fixed_point.                                  *)
(***************************************************************************)
\* jnp.allclose(a, b, atol=atol): every element |a - b| <= atol + rtol*|b|.
\* In units: d <= (Scale + |b|) / 100000, and d is an integer.
allclose(a, b) ==
  \A k \in DOMAIN a : Abs(a[k] - b[k]) <= (Scale + Abs(b[k])) \div atol_inv

\* Mutants of max_iters_reached: the ceiling tested one late, and one early.
max_iters_reached_late(ii, m) == ii > m
max_iters_reached_early(ii, m) == ii + 1 >= m

max_iters_reached(ii, m) == ii >= m

\* Mutant of tolerance_achieved: one close element is enough.
tolerance_achieved_any(xp, xx) ==
  \E k \in DOMAIN xp : Abs(xp[k] - xx[k]) <= (Scale + Abs(xx[k])) \div atol_inv

tolerance_achieved(xp, xx) == allclose(xp, xx)

cond_fun(xp, xx, ii, m) ==
  ~(max_iters_reached(ii, m) \/ tolerance_achieved(xp, xx))

\* Mutant of body_fun: the carry keeps the old x_prev.
body_fun_stale(gg, xp, xx, ii) == <<xp, Apply(gg, xx), ii + 1>>

body_fun(gg, xp, xx, ii) == <<xx, Apply(gg, xx), ii + 1>>

(***************************************************************************)
(* State.                                                                  *)
(*   entry          which function the caller invoked: "solve" is          *)
(*                  _fixed_point(f, x_init, max_iters), "fixed_point" is   *)
(*                  fixed_point(f, u, x_init, max_iters, *nondiff_args)    *)
(*   f, u, nondiff_args, x_init, max_iters   the arguments of the call     *)
(*   g              the unary function _fixed_point iterates               *)
(*   x_prev, x, i   the carry of jax.lax.while_loop                        *)
(*   N              the iteration count _fixed_point returned              *)
(*   out            what fixed_point returned                              *)
(*   pc             "call" -> "solve" -> "loop" -> "ret" -> "done"         *)
(*   run, first     a caller of _fixed_point may solve again from the      *)
(*                  value it got back; first remembers the first answer    *)
(*   body_runs      executions of body_fun in the current solve            *)
(*   calls          evaluations of the update function in the current solve*)
(*   dLdx, ctx, grads   the backward rule: the upstream gradient, the      *)
(*                  residual fixed_point_fwd stored, and what              *)
(*                  fixed_point_rev returned (entry = "grad")              *)
(*   log, ncalls    the invocations a caller made one after another, each  *)
(*                  with its arguments and its result                      *)
(*   pending        residuals of forward passes whose backward pass has    *)
(*                  not run yet                                            *)
(*   st_op, st_in, st_out, st_pc   one call of a staxplusplus function:    *)
(*                  which one, its arguments, its result, and whether it   *)
(*                  has run                                                *)
(***************************************************************************)
VARIABLES entry, f, u, nondiff_args, x_init, max_iters,
          g, x_prev, x, i, N, out, pc, run, first, body_runs, calls,
          dLdx, ctx, grads, log, ncalls, pending,
          st_op, st_in, st_out, st_pc

vars == <<entry, f, u, nondiff_args, x_init, max_iters,
          g, x_prev, x, i, N, out, pc, run, first, body_runs, calls,
          dLdx, ctx, grads, log, ncalls, pending,
          st_op, st_in, st_out, st_pc>>

gradvars == <<dLdx, ctx, grads>>
callvars == <<log, ncalls, pending>>
staxvars == <<st_op, st_in, st_out, st_pc>>

inputs == <<entry, f, u, nondiff_args, max_iters>>

None == <<>>
NoFirst == [x |-> None, N |-> -1, x_init |-> None]
NoCtx == [u |-> 0, x |-> None, max_iters |-> -1, extra |-> <<>>]

\* No staxplusplus function is being called.
StaxIdle ==
  /\ st_op = "none"
  /\ st_in = <<>>
  /\ st_out = <<>>
  /\ st_pc = "idle"

\* No backward pass is asked for.
GradIdle ==
  /\ dLdx = None
  /\ ctx = NoCtx
  /\ grads = <<>>
  /\ log = {}
  /\ ncalls = 1
  /\ pending = {}

\* Starting points.  Tables act elementwise, so a pair and its mirror image
\* behave alike and only ordered pairs are drawn.
XInitsTable ==
  {<<d>> : d \in Dom} \cup {p \in Dom \X Dom : p[1] < p[2]}
XInitsHalf == {<<0>>, <<Scale>>, <<Six>>, <<12 * Scale>>,
               <<0, Six>>, <<0, 12 * Scale>>}
XInitsDouble == {<<-Scale>>, <<8 - Scale>>, <<0>>, <<8>>, <<Scale>>,
                 <<2 * Scale>>, <<-Scale, Scale>>, <<Scale, 2 * Scale>>}
XInitsWrapped == {<<0>>, <<Scale>>, <<0, Six>>}
Params == {0, Scale, 3 * Scale}
Extras == {<<>>, <<Scale>>, <<Scale, 2 * Scale>>, <<2 * Scale, Scale>>}

SmallIters == 0 .. MaxIters

InitSolve ==
  /\ entry = "solve"
  /\ \/ /\ f \in {TableFn(t) : t \in Tables}
        /\ u = 0
        /\ nondiff_args = <<>>
        /\ x_init \in XInitsTable
        /\ max_iters \in SmallIters
     \/ /\ f = HalfPlus3.fn
        /\ u = HalfPlus3.u
        /\ nondiff_args = HalfPlus3.extra
        /\ x_init \in XInitsHalf
        /\ max_iters \in SmallIters \cup {BigIters}
     \/ /\ f = DoublePlus1.fn
        /\ u = DoublePlus1.u
        /\ nondiff_args = DoublePlus1.extra
        /\ x_init \in XInitsDouble
        /\ max_iters \in SmallIters
  /\ g = Closure(f, u, nondiff_args)
  /\ pc = "solve"

InitWrapped ==
  /\ entry = "fixed_point"
  /\ f \in {AffineFn(1, 2), AffineFn(2, 1)}
  /\ u \in Params
  /\ nondiff_args \in Extras
  /\ x_init \in XInitsWrapped
  /\ max_iters \in SmallIters
  /\ g = Closure(f, 0, <<>>)
  /\ pc = "call"

\* Nothing has run yet.
Fresh ==
  /\ x_prev = None
  /\ x = None
  /\ i = 0
  /\ N = -1
  /\ out = None
  /\ run = 1
  /\ first = NoFirst
  /\ body_runs = 0
  /\ calls = 0

Init ==
  /\ InitSolve \/ InitWrapped
  /\ Fresh
  /\ GradIdle
  /\ StaxIdle

\* Mutant of fixed_point_iter: the extras reach f in reverse order.
fixed_point_iter_reversed ==
  Closure(f, u, [k \in DOMAIN nondiff_args |->
                   nondiff_args[Len(nondiff_args) + 1 - k]])

\* fixed_point: define fixed_point_iter(x) = f(u, x, *nondiff_args) and hand
\* it to _fixed_point with the caller's x_init and max_iters.
fixed_point_iter == Closure(f, u, nondiff_args)

fixed_point_call ==
  /\ pc = "call"
  /\ g' = fixed_point_iter
  /\ pc' = "solve"
  /\ UNCHANGED <<inputs, x_init, x_prev, x, i, N, out, run, first,
                 body_runs, calls>>
  /\ UNCHANGED <<gradvars, callvars, staxvars>>

\* Mutants of init_val: f is not applied before the first test, the count
\* starts at 1, and the count starts where the previous solve left it.
init_val_no_apply(gg, x0) == <<x0, x0, 0>>
init_val_from_one(gg, x0) == <<x0, Apply(gg, x0), 1>>
init_val_leftover(gg, x0) == <<x0, Apply(gg, x0), i>>

\* The initial carry of the while loop: (x_init, f(x_init), 0).
init_val(gg, x0) == <<x0, Apply(gg, x0), 0>>

while_init ==
  /\ pc = "solve"
  /\ LET val == init_val(g, x_init)
     IN  /\ x_prev' = val[1]
         /\ x' = val[2]
         /\ i' = val[3]
  /\ calls' = 1
  /\ body_runs' = 0
  /\ pc' = "loop"
  /\ UNCHANGED <<inputs, x_init, g, N, out, run, first>>
  /\ UNCHANGED <<gradvars, callvars, staxvars>>

while_body ==
  /\ pc = "loop"
  /\ cond_fun(x_prev, x, i, max_iters)
  /\ LET val == body_fun(g, x_prev, x, i)
     IN  /\ x_prev' = val[1]
         /\ x' = val[2]
         /\ i' = val[3]
  /\ calls' = calls + 1
  /\ body_runs' = body_runs + 1
  /\ UNCHANGED <<inputs, x_init, g, N, out, pc, run, first>>
  /\ UNCHANGED <<gradvars, callvars, staxvars>>

\* The loop ends and _fixed_point returns (x, N).
while_exit ==
  /\ pc = "loop"
  /\ ~cond_fun(x_prev, x, i, max_iters)
  /\ N' = i
  /\ pc' = "ret"
  /\ UNCHANGED <<inputs, x_init, g, x_prev, x, i, out, run, first,
                 body_runs, calls>>
  /\ UNCHANGED <<gradvars, callvars, staxvars>>

\* fixed_point keeps x and drops N.
fixed_point_result(xx, nn) == xx

fixed_point_return ==
  /\ pc = "ret"
  /\ entry = "fixed_point"
  /\ out' = fixed_point_result(x, N)
  /\ pc' = "done"
  /\ UNCHANGED <<inputs, x_init, g, x_prev, x, i, N, run, first,
                 body_runs, calls>>
  /\ UNCHANGED <<gradvars, callvars, staxvars>>

\* A caller whose solve stopped by convergence solves again, starting from
\* the value it got back, with the same f and max_iters.
solve_again ==
  /\ pc = "ret"
  /\ entry = "solve"
  /\ run = 1
  /\ tolerance_achieved(x_prev, x)
  /\ first' = [x |-> x, N |-> N, x_init |-> x_init]
  /\ x_init' = x
  /\ run' = 2
  /\ pc' = "solve"
  /\ UNCHANGED <<inputs, g, x_prev, x, i, N, out, body_runs, calls>>
  /\ UNCHANGED <<gradvars, callvars, staxvars>>

Next ==
  \/ fixed_point_call
  \/ while_init
  \/ while_body
  \/ while_exit
  \/ fixed_point_return
  \/ solve_again

Spec == Init /\ [][Next]_vars

\* The program is sequential: whenever a step is possible it is taken.
FairSpec == Spec /\ WF_vars(Next)

(***************************************************************************)
(* The backward rule: fixed_point_fwd and fixed_point_rev, which jax runs   *)
(* one after the other when a gradient of fixed_point is asked for.        *)
(***************************************************************************)
\* The slow contraction f(u, x) = (15/16) x + u.  Its iterates need more
\* bits than the grid has: each product is rounded down to the grid, an
\* error below 2^-20 a step and below 16 * 2^-20 = 1.6e-5 in total.
Slow == AffineFn(15, 16)

XInitsGrad == {<<0>>, <<-Scale>>, <<Scale, -Scale>>}

\* Upstream gradients for an iterate of n elements: all ones, or 1, 2, ...
Cotangents(n) == {[k \in 1 .. n |-> Scale], [k \in 1 .. n |-> k * Scale]}

InitArgsGrad ==
  /\ entry = "grad"
  /\ \/ /\ f \in {AffineFn(1, 2), AffineFn(-1, 2)}
        /\ u \in Params
        /\ nondiff_args \in Extras
        /\ x_init \in XInitsGrad
        /\ max_iters \in SmallIters \cup {BigIters}
     \/ /\ f = LeakyFn(1, 2)
        /\ u \in {Scale, 3 * Scale}
        /\ nondiff_args \in Extras
        /\ x_init \in XInitsGrad
        /\ max_iters \in SmallIters \cup {BigIters}
     \/ /\ f = AffineFn(2, 1)
        /\ u \in Params
        /\ nondiff_args \in Extras
        /\ x_init \in XInitsGrad
        /\ max_iters \in SmallIters
     \/ /\ f = Slow
        /\ u \in {Scale, 3 * Scale}
        /\ nondiff_args = <<>>
        /\ x_init = <<0>>
        /\ max_iters \in {BigIters, HugeIters}
  /\ dLdx \in Cotangents(Len(x_init))
  /\ g = Closure(f, 0, <<>>)
  /\ pc = "call"
  /\ ctx = NoCtx
  /\ grads = <<>>

InitGrad ==
  /\ InitArgsGrad
  /\ Fresh
  /\ log = {}
  /\ ncalls = 1
  /\ pending = {}
  /\ StaxIdle

\* One invocation as a caller sees it: the arguments and the result.
FwdEntry(res) ==
  [kind |-> "fwd", f |-> f, u |-> u, x |-> x_init, max_iters |-> max_iters,
   extra |-> nondiff_args, dLdx |-> None, res |-> res, grads |-> <<>>]

RevEntry(res) ==
  [kind |-> "rev", f |-> f, u |-> ctx.u, x |-> ctx.x,
   max_iters |-> ctx.max_iters, extra |-> ctx.extra, dLdx |-> dLdx,
   res |-> None, grads |-> res]

\* Mutant of fwd_residual: the residual keeps the iterate before the last.
fwd_residual_prev(uu, xx, m, extra) ==
  [u |-> uu, x |-> x_prev, max_iters |-> m, extra |-> extra]

\* fixed_point_fwd returns x, (u, x, max_iters, *nondiff_args).
fwd_residual(uu, xx, m, extra) ==
  [u |-> uu, x |-> xx, max_iters |-> m, extra |-> extra]

fixed_point_fwd_return ==
  /\ pc = "ret"
  /\ entry = "grad"
  /\ ctx = NoCtx
  /\ out' = fixed_point_result(x, N)
  /\ ctx' = fwd_residual(u, fixed_point_result(x, N), max_iters, nondiff_args)
  /\ first' = [x |-> x, N |-> N, x_init |-> x_init]
  /\ log' = log \cup {FwdEntry(fixed_point_result(x, N))}
  /\ pc' = "fwd_done"
  /\ UNCHANGED <<inputs, x_init, g, x_prev, x, i, N, run, body_runs, calls>>
  /\ UNCHANGED <<dLdx, grads, ncalls, pending, staxvars>>

\* fixed_point_rev up to its call of _fixed_point(rev_iter, dLdx, max_iters):
\* the residual is unpacked and vjp_x is taken at the x it holds.
fixed_point_rev_start ==
  /\ pc = "fwd_done"
  /\ g' = RevClosure(f, ctx.u, ctx.extra, ctx.x, dLdx)
  /\ x_init' = dLdx
  /\ max_iters' = ctx.max_iters
  /\ pc' = "solve"
  /\ UNCHANGED <<entry, f, u, nondiff_args, x_prev, x, i, N, out, run, first,
                 body_runs, calls>>
  /\ UNCHANGED <<gradvars, callvars, staxvars>>

Null == [null |-> TRUE]
Grad(v) == [val |-> v]
NullTuple(k) == [tuple |-> [j \in 1 .. k |-> Null]]

\* Mutant of rev_result: the adjoint is also handed back as the gradient of
\* x_init.
rev_result_leaks(dLdu, k) ==
  IF k = 0
    THEN <<Grad(dLdu), Grad(dLdu), Null>>
    ELSE <<Grad(dLdu), Grad(dLdu), Null, NullTuple(k)>>

\* What fixed_point_rev returns: dLdu, None, None and, when there are
\* extras, one more entry, the tuple (None,)*len(nondiff_args).
rev_result(dLdu, k) ==
  IF k = 0
    THEN <<Grad(dLdu), Null, Null>>
    ELSE <<Grad(dLdu), Null, Null, NullTuple(k)>>

\* fixed_point_rev after the adjoint solve returned zeta (the solver's x).
fixed_point_rev_return ==
  /\ pc = "ret"
  /\ entry = "grad"
  /\ ctx # NoCtx
  /\ LET zeta == x
         dLdu == vjp_u(f, ctx.u, ctx.extra, ctx.x, zeta)
         res == rev_result(dLdu, Len(ctx.extra))
     IN  /\ grads' = res
         /\ log' = log \cup {RevEntry(res)}
  /\ pc' = "grad_done"
  /\ UNCHANGED <<inputs, x_init, g, x_prev, x, i, N, out, run, first,
                 body_runs, calls>>
  /\ UNCHANGED <<dLdx, ctx, ncalls, pending, staxvars>>

NextGrad ==
  \/ fixed_point_call
  \/ while_init
  \/ while_body
  \/ while_exit
  \/ fixed_point_fwd_return
  \/ fixed_point_rev_start
  \/ fixed_point_rev_return

SpecGrad == InitGrad /\ [][NextGrad]_vars

(***************************************************************************)
(* A caller that invokes the solver several times.  A forward pass may be   *)
(* followed by its backward pass at once, or other invocations may come    *)
(* in between (backpropagation runs the backward passes in reverse order). *)
(***************************************************************************)
MaxCalls == 3

CallArgs ==
  {[f |-> AffineFn(1, 2), u |-> Scale, extra |-> <<>>, x |-> <<0>>, m |-> 0],
   [f |-> AffineFn(1, 2), u |-> Scale, extra |-> <<>>, x |-> <<0>>, m |-> 2],
   [f |-> LeakyFn(1, 2), u |-> Scale, extra |-> <<Scale>>, x |-> <<-Scale>>,
    m |-> 1],
   [f |-> AffineFn(2, 1), u |-> 0, extra |-> <<>>, x |-> <<Scale, -Scale>>,
    m |-> 2]}

Calls(a) ==
  /\ entry = "grad"
  /\ f = a.f
  /\ u = a.u
  /\ nondiff_args = a.extra
  /\ x_init = a.x
  /\ max_iters = a.m
  /\ dLdx = [k \in DOMAIN a.x |-> Scale]

InitCalls ==
  /\ \E a \in CallArgs : Calls(a)
  /\ g = Closure(f, 0, <<>>)
  /\ pc = "call"
  /\ ctx = NoCtx
  /\ grads = <<>>
  /\ Fresh
  /\ log = {}
  /\ ncalls = 1
  /\ pending = {}
  /\ StaxIdle

\* The caller invokes fixed_point again.  Nothing of the solver is touched:
\* whatever the previous invocation left behind is still there.
next_call ==
  /\ pc \in {"fwd_done", "grad_done"}
  /\ ncalls < MaxCalls
  /\ ncalls' = ncalls + 1
  /\ pending' = IF pc = "fwd_done"
                  THEN pending \cup {[f |-> f, ctx |-> ctx, dLdx |-> dLdx]}
                  ELSE pending
  /\ \E a \in CallArgs :
       /\ entry' = "grad"
       /\ f' = a.f
       /\ u' = a.u
       /\ nondiff_args' = a.extra
       /\ x_init' = a.x
       /\ max_iters' = a.m
       /\ dLdx' = [k \in DOMAIN a.x |-> Scale]
  /\ ctx' = NoCtx
  /\ pc' = "call"
  /\ UNCHANGED <<g, x_prev, x, i, N, out, run, first, body_runs, calls,
                 grads, log, staxvars>>

\* jax runs the backward pass of an earlier forward pass.
resume_backward ==
  /\ pc = "grad_done"
  /\ \E p \in pending :
       /\ f' = p.f
       /\ ctx' = p.ctx
       /\ dLdx' = p.dLdx
       /\ pending' = pending \ {p}
  /\ pc' = "fwd_done"
  /\ UNCHANGED <<entry, u, nondiff_args, x_init, max_iters, g, x_prev, x, i,
                 N, out, run, first, body_runs, calls, grads, log, ncalls,
                 staxvars>>

NextCalls == NextGrad \/ next_call \/ resume_backward

SpecCalls == InitCalls /\ [][NextCalls]_vars

\* Model validity: every division is exact, except in the slow contraction.
ExactArithmetic ==
  pc = "loop" /\ g.fn.kind # "table" /\ g.fn # Slow =>
    \A k \in DOMAIN x_prev :
      IF IsRev(g)
        THEN (Slope(g.fn, g.at[k]).num * x_prev[k])
               % Slope(g.fn, g.at[k]).den = 0
        ELSE (g.fn.num * x_prev[k]) % Slope(g.fn, x_prev[k]).den = 0

(***************************************************************************)
(* Reference definitions for the claims.                                   *)
(***************************************************************************)
\* xx with every element computed.
RECURSIVE Elements(_, _)
Elements(xx, k) ==
  IF k > Len(xx) THEN <<>> ELSE <<xx[k]>> \o Elements(xx, k + 1)

\* gg applied k times to x0 (an empty x0 stays empty).
RECURSIVE Iterate(_, _, _)
Iterate(gg, x0, k) ==
  IF k = 0 \/ Len(x0) = 0
    THEN x0
    ELSE Iterate(gg, Elements(Apply(gg, x0), 1), k - 1)

\* f(u, ., *extra) applied k times to x0, each call written out in full.
RECURSIVE IterateF(_, _, _, _, _)
IterateF(fn, uu, extra, x0, k) ==
  IF k = 0 THEN x0 ELSE CallF(fn, uu, IterateF(fn, uu, extra, x0, k - 1), extra)

\* Every element of |a - b| is at most 1e-5, with no relative term.
WithinAtol(a, b) ==
  \A k \in DOMAIN a : Abs(a[k] - b[k]) <= Scale \div atol_inv

Returned == pc \in {"ret", "done"}

\* C1: in every state of the loop the carry is (f^i(x_init), f^(i+1)(x_init),
\* i) with x = f(x_prev), and the returned pair is (f^(N+1)(x_init), N).
C1_CarryIsIterate ==
  pc \in {"loop", "ret", "done"} =>
    /\ x_prev = Iterate(g, x_init, i)
    /\ x = Apply(g, x_prev)
    /\ x = Iterate(g, x_init, i + 1)
    /\ (Returned => N = i)

C1_Witness == pc = "ret" /\ N >= 2 /\ x # x_prev /\ x_prev # x_init

\* C2: every solve terminates, the loop body runs at most max_iters times and
\* the returned count is between 0 and max_iters.
C2_TerminatesWithinBudget ==
  /\ [](body_runs <= max_iters /\ (Returned => 0 <= N /\ N <= max_iters))
  /\ ((pc = "solve") ~> (pc = "ret"))

C2_Witness ==
  pc = "ret" /\ max_iters >= 2 /\ N = max_iters /\ body_runs = max_iters
  /\ ~tolerance_achieved(x_prev, x)

\* C3 as stated: the returned value itself passes the residual test against
\* its own image, or the budget was exhausted.
C3_ReturnedValueIsFixedPoint ==
  pc = "ret" => (allclose(x, Apply(g, x)) \/ N = max_iters)

\* C3 amended: the residual test passed on the pair (x_prev, x) whose second
\* component x = f(x_prev) is returned, or the budget was exhausted.
C3_ResidualAtPreviousIterate ==
  pc = "ret" =>
    \/ (x = Apply(g, x_prev) /\ allclose(x_prev, x))
    \/ N = max_iters

C3_Witness ==
  pc = "ret" /\ N < max_iters /\ ~allclose(x, Apply(g, x)) /\ Len(x) = 2

\* C4 as stated: the convergence test passes exactly when every element of
\* |x_prev - x| is at most 1e-5, whatever the magnitude of x.
C4_AbsoluteToleranceOnly ==
  pc = "loop" => (tolerance_achieved(x_prev, x) <=> WithinAtol(x_prev, x))

\* C5: with max_iters = 0 the solver returns f(x_init), f applied once, the
\* body never runs and the count is 0.
C5_ZeroBudget ==
  Returned /\ max_iters = 0 =>
    /\ x = Apply(g, x_init)
    /\ N = 0
    /\ body_runs = 0
    /\ calls = 1

C5_Witness ==
  pc = "ret" /\ max_iters = 0 /\ ~tolerance_achieved(x_prev, x) /\ x # x_init

\* C6 as stated: f(x) = 0.5x + 3 from 0 with max_iters = 100 stops by
\* convergence below 100 iterations with |x - 6| <= 1e-5.
C6_ContractionWithinTolerance ==
  pc = "ret" /\ run = 1 /\ g = HalfPlus3 /\ x_init = <<0>>
    /\ max_iters = BigIters =>
      /\ N < BigIters
      /\ tolerance_achieved(x_prev, x)
      /\ WithinAtol(x, <<Six>>)

\* C7 as stated: solving again from a converged x* returns x* itself with
\* count 0.
C7_ResolveReturnsSameValue ==
  pc = "ret" /\ run = 2 /\ first.N < max_iters =>
    x = first.x /\ N = 0

\* C7 amended: solving again from a converged x* returns f applied N + 1 >= 1
\* times to x*; when x* and f(x*) pass the convergence test the count is 0 and
\* the value returned is f(x*).
C7_ResolveAppliesOnce ==
  pc = "ret" /\ run = 2 /\ first.N < max_iters =>
    /\ x_init = first.x
    /\ x = Iterate(g, first.x, N + 1)
    /\ (allclose(first.x, Apply(g, first.x)) =>
          N = 0 /\ x = Apply(g, first.x))

C7_Witness ==
  pc = "ret" /\ run = 2 /\ first.N < max_iters /\ N = 0 /\ x # first.x

IsZero(v) == \A k \in DOMAIN v : v[k] = 0

\* C8 as stated: f(x) = 2x + 1 from any nonzero start runs exactly max_iters
\* iterations and returns count max_iters.
C8_ExpandingRunsToBudget ==
  pc = "ret" /\ run = 1 /\ g = DoublePlus1 /\ ~IsZero(x_init) =>
    N = max_iters /\ body_runs = max_iters

\* C8 amended: the same for every start whose first step does not already
\* pass the convergence test (a start not within tolerance of the fixed
\* point -1 of the map).
C8_ExpandingAwayFromFixedPoint ==
  pc = "ret" /\ run = 1 /\ g = DoublePlus1
    /\ ~allclose(x_init, Apply(g, x_init)) =>
      /\ N = max_iters
      /\ body_runs = max_iters
      /\ ~tolerance_achieved(x_prev, x)

C8_Witness ==
  pc = "ret" /\ run = 1 /\ g = DoublePlus1 /\ ~IsZero(x_init)
  /\ N = max_iters /\ N >= 2

\* C9: a solve that ends without the convergence test passing is an ordinary
\* return of f^(max_iters+1)(x_init) with count max_iters.
C9_BudgetReturnsLastIterate ==
  /\ pc \in {"call", "solve", "loop", "ret", "done"}
  /\ (pc = "loop" /\ max_iters_reached(i, max_iters) => ENABLED while_exit)
  /\ (Returned /\ ~tolerance_achieved(x_prev, x) =>
        /\ N = max_iters
        /\ x = Iterate(g, x_init, max_iters + 1))

C9_Witness ==
  pc = "ret" /\ ~tolerance_achieved(x_prev, x) /\ max_iters >= 1
  /\ g.fn.kind = "table"

\* The forward solver as a function: the pair (x, N) it returns.  Each carry
\* is computed in full before the loop goes on.
RECURSIVE WhileLoop(_, _, _)
WhileLoop(gg, val, m) ==
  IF cond_fun(val[1], val[2], val[3], m)
    THEN WhileLoop(gg, <<val[2], Elements(Apply(gg, val[2]), 1), val[3] + 1>>,
                   m)
    ELSE val

Solve(gg, x0, m) ==
  LET val == WhileLoop(gg, <<x0, Elements(Apply(gg, x0), 1), 0>>, m)
  IN  <<val[2], val[3]>>

\* C10: fixed_point returns the x component of the solver run on
\* g(x) = f(u, x, *nondiff_args) with the caller's x_init and max_iters; every
\* call of f receives u and the extras unchanged and in order.
C10_WrapperDelegates ==
  entry = "fixed_point" /\ pc = "done" =>
    /\ out = Solve(Closure(f, u, nondiff_args), x_init, max_iters)[1]
    /\ out = IterateF(f, u, nondiff_args, x_init, N + 1)

C10_Witness ==
  entry = "fixed_point" /\ pc = "done" /\ Len(nondiff_args) = 2
  /\ nondiff_args[1] # nondiff_args[2] /\ u # 0 /\ N >= 1

(***************************************************************************)
(* The backward rule.                                                      *)
(***************************************************************************)
GradDone == pc = "grad_done"

\* C11: dL/du is vjp_u(zeta), zeta being the forward solver's answer (same
\* max_iters, same test) on rev_iter(zeta) = dLdx + vjp_x(zeta) from dLdx,
\* with both vjp operators taken at the x* the forward pass returned.
C11_AdjointAtStoredPoint ==
  GradDone =>
    LET xs == Solve(Closure(f, u, nondiff_args), first.x_init, max_iters)[1]
        zeta == Solve(RevClosure(f, u, nondiff_args, ctx.x, dLdx), dLdx,
                      max_iters)[1]
    IN  /\ ctx.x = xs
        /\ x = zeta
        /\ grads[1] = Grad(vjp_u(f, u, nondiff_args, ctx.x, zeta))

C11_Witness ==
  GradDone /\ f.kind = "leaky" /\ first.x_init[1] < 0 /\ ctx.x[1] > 0
  /\ N >= 1 /\ first.N < max_iters

LinearScalarCase ==
  /\ GradDone
  /\ f.kind = "affine"
  /\ Abs(f.num) < f.den
  /\ nondiff_args = <<>>
  /\ dLdx = <<Scale>>
  /\ first.N < max_iters
  /\ N < max_iters

\* |dLdu - 1/(1 - a)| <= 1e-4 for a = num/den, cleared of fractions.
GradientWithin1e4 ==
  Abs(grads[1].val * (f.den - f.num) - Scale * f.den)
    <= ((f.den - f.num) * Scale) \div 10000

\* C12 as stated: for f(u, x) = a x + u with |a| < 1 and both solves
\* converged, the adjoint gradient is within 1e-4 of 1/(1 - a).
C12_GradientMatchesAnalytic == LinearScalarCase => GradientWithin1e4

\* C12 amended: the same for |a| <= 1/2.
C12_GradientMatchesAnalyticHalf ==
  LinearScalarCase /\ 2 * Abs(f.num) <= f.den => GradientWithin1e4

C12_Witness ==
  LinearScalarCase /\ f = AffineFn(-1, 2) /\ u = 3 * Scale /\ N >= 10

RECURSIVE FlatGrads(_, _)
FlatGrads(gs, k) ==
  IF k > Len(gs) THEN <<>>
  ELSE (IF "tuple" \in DOMAIN gs[k] THEN gs[k].tuple ELSE <<gs[k]>>)
         \o FlatGrads(gs, k + 1)

\* C13: of everything the backward rule returns only the gradient of u is a
\* value; x_init, max_iters and each extra get a null.
C13_OnlyUGetsGradient ==
  GradDone =>
    LET fl == FlatGrads(grads, 1)
    IN  /\ Len(fl) = 3 + Len(nondiff_args)
        /\ "val" \in DOMAIN fl[1]
        /\ \A j \in 2 .. Len(fl) : fl[j] = Null

C13_Witness ==
  GradDone /\ Len(nondiff_args) = 2 /\ grads[1].val # 0

\* C14: when the adjoint solve ends without the convergence test passing, the
\* rule returns normally, with vjp_u of rev_iter^(max_iters+1)(dLdx).
C14_PartialAdjointUsed ==
  /\ pc \in {"call", "solve", "loop", "ret", "fwd_done", "grad_done"}
  /\ (GradDone /\ ~tolerance_achieved(x_prev, x) =>
        LET rev == RevClosure(f, u, nondiff_args, ctx.x, dLdx)
            zeta == Solve(rev, dLdx, max_iters)
        IN  /\ N = max_iters
            /\ zeta[2] = max_iters
            /\ grads[1] = Grad(vjp_u(f, u, nondiff_args, ctx.x, zeta[1]))
            /\ zeta[1] = Iterate(rev, dLdx, max_iters + 1))

C14_Witness ==
  GradDone /\ ~tolerance_achieved(x_prev, x) /\ max_iters >= 2
  /\ f = AffineFn(1, 2)

\* C15: every forward solve evaluates f on x_init, also with max_iters = 0 or
\* x_init a fixed point, and N + 1 times in all.
C15_EvaluationsOfF ==
  pc \in {"loop", "ret", "done"} =>
    /\ calls >= 1
    /\ calls = i + 1
    /\ x = Iterate(g, x_init, calls)
    /\ (Returned => calls = N + 1)

C15_Witness ==
  pc = "ret" /\ calls = 1 /\ max_iters >= 1 /\ Apply(g, x_init) = x_init
  /\ g.fn.kind = "table"

SameArgs(a, b) ==
  /\ a.kind = b.kind
  /\ a.f = b.f
  /\ a.u = b.u
  /\ a.x = b.x
  /\ a.max_iters = b.max_iters
  /\ a.extra = b.extra
  /\ a.dLdx = b.dLdx

\* C16: two invocations with equal arguments return equal results, whatever
\* was invoked before or in between.
C16_EqualArgumentsEqualResults ==
  \A a, b \in log : SameArgs(a, b) => a.res = b.res /\ a.grads = b.grads

\* Three invocations, two of them with equal arguments, every backward pass
\* done.
C16_Witness ==
  /\ GradDone
  /\ ncalls = 3
  /\ pending = {}
  /\ Cardinality(log) = 4

(***************************************************************************)
(* staxplusplus: build_autoregressive_masks, get_param and modify_param,   *)
(* Split and data_dependent_init.  The solver takes no part: its variables *)
(* keep the values they have before any call.                              *)
(***************************************************************************)
solvervars == <<entry, f, u, nondiff_args, x_init, max_iters,
                g, x_prev, x, i, N, out, pc, run, first, body_runs, calls>>

SolverIdle ==
  /\ entry = "none"
  /\ f = IdTab
  /\ u = 0
  /\ nondiff_args = <<>>
  /\ x_init = None
  /\ max_iters = 0
  /\ g = Closure(f, 0, <<>>)
  /\ pc = "idle"
  /\ Fresh

StaxFrame == UNCHANGED <<solvervars, gradvars, callvars>>

Max(a, b) == IF a >= b THEN a ELSE b
Min(a, b) == IF a <= b THEN a ELSE b

(***************************************************************************)
(* build_autoregressive_masks(dim, hidden_layer_sizes, reverse) with       *)
(* method = 'sequential'.  A mask is a sequence of rows.                   *)
(***************************************************************************)
MaxDim == 4
MaxHidden == 2
HiddenSizes == {1, 2, 5}

HiddenLists == UNION {[1 .. n -> HiddenSizes] : n \in 0 .. MaxHidden}

MaskInputs ==
  {[dim |-> d, hidden_layer_sizes |-> h, reverse |-> r] :
     d \in 1 .. MaxDim, h \in HiddenLists, r \in BOOLEAN}

\* np.arange(1, dim + 1), reversed when reverse is set.
arange_input_sel(dim, reverse) ==
  [k \in 1 .. dim |-> IF reverse THEN dim + 1 - k ELSE k]

\* np.arange(size) % max(1, dim - 1) + min(1, dim - 1)
arange_sel(size, dim) ==
  [k \in 1 .. size |-> ((k - 1) % Max(1, dim - 1)) + Min(1, dim - 1)]

\* (a[:, None] <= b).astype(int32) and (a[:, None] < b).astype(int32)
le_mask(a, b) ==
  [r \in 1 .. Len(a) |-> [c \in 1 .. Len(b) |-> IF a[r] <= b[c] THEN 1 ELSE 0]]

lt_mask(a, b) ==
  [r \in 1 .. Len(a) |-> [c \in 1 .. Len(b) |-> IF a[r] < b[c] THEN 1 ELSE 0]]

\* Mutant of out_mask: the last comparison is not strict.
out_mask_not_strict(prev_sel, input_sel) == le_mask(prev_sel, input_sel)

out_mask(prev_sel, input_sel) == lt_mask(prev_sel, input_sel)

InitMasks ==
  /\ st_op = "masks"
  /\ st_in \in MaskInputs
  /\ st_out = <<>>
  /\ st_pc = "call"

\* Lines 563-582: layer_sizes, input_sel, and the loop variables.
masks_begin ==
  /\ st_op = "masks"
  /\ st_pc = "call"
  /\ LET input_sel == arange_input_sel(st_in.dim, st_in.reverse)
     IN  st_out' = [layer_sizes |-> st_in.hidden_layer_sizes \o <<st_in.dim>>,
                    done |-> 0,
                    input_sel |-> input_sel,
                    sel |-> input_sel,
                    prev_sel |-> input_sel,
                    masks |-> <<>>,
                    skip |-> <<>>,
                    mu |-> <<>>,
                    alpha |-> <<>>]
  /\ st_pc' = "layers"
  /\ UNCHANGED <<st_op, st_in>>
  /\ StaxFrame

\* One run of the loop over layer_sizes.
masks_layer ==
  /\ st_op = "masks"
  /\ st_pc = "layers"
  /\ st_out.done < Len(st_out.layer_sizes)
  /\ LET size == st_out.layer_sizes[st_out.done + 1]
         sel == arange_sel(size, st_in.dim)
         mask == le_mask(st_out.prev_sel, sel)
     IN  st_out' = [st_out EXCEPT !.done = @ + 1,
                                  !.sel = sel,
                                  !.prev_sel = sel,
                                  !.masks = Append(@, mask)]
  /\ UNCHANGED <<st_op, st_in, st_pc>>
  /\ StaxFrame

\* After the loop: the skip mask, the output mask and the dictionary.
masks_finish ==
  /\ st_op = "masks"
  /\ st_pc = "layers"
  /\ st_out.done = Len(st_out.layer_sizes)
  /\ LET skip_mask == lt_mask(st_out.input_sel, st_out.input_sel)
         om == out_mask(st_out.prev_sel, st_out.input_sel)
     IN  st_out' = [st_out EXCEPT !.skip = skip_mask, !.mu = om, !.alpha = om]
  /\ st_pc' = "done"
  /\ UNCHANGED <<st_op, st_in>>
  /\ StaxFrame

(***************************************************************************)
(* Pytrees: a leaf, or a node with a sequence of children.  Containers     *)
(* with no children (an empty tuple) are nodes.                            *)
(***************************************************************************)
Leaf(v) == [leaf |-> v]
Node(ks) == [kids |-> ks]
IsLeaf(t) == "leaf" \in DOMAIN t

\* tree_flatten(t)[0]: the leaves from left to right.
RECURSIVE tree_leaves(_)
RECURSIVE kids_leaves(_, _)
tree_leaves(t) == IF IsLeaf(t) THEN <<t.leaf>> ELSE kids_leaves(t.kids, 1)

kids_leaves(ks, k) ==
  IF k > Len(ks) THEN <<>> ELSE tree_leaves(ks[k]) \o kids_leaves(ks, k + 1)

\* tree_flatten(t)[1]: the tree with every leaf blanked.
RECURSIVE tree_structure(_)
tree_structure(t) ==
  IF IsLeaf(t) THEN Leaf("*")
  ELSE Node([k \in 1 .. Len(t.kids) |-> tree_structure(t.kids[k])])

\* treedef.flatten_up_to(t) succeeds: t has a node wherever treedef has one.
RECURSIVE is_prefix(_, _)
is_prefix(treedef, t) ==
  \/ IsLeaf(treedef)
  \/ /\ ~IsLeaf(t)
     /\ Len(t.kids) = Len(treedef.kids)
     /\ \A k \in 1 .. Len(t.kids) : is_prefix(treedef.kids[k], t.kids[k])

\* treedef.flatten_up_to(t): the subtrees of t at the leaves of treedef.
RECURSIVE flatten_up_to(_, _)
RECURSIVE kids_up_to(_, _, _)
flatten_up_to(treedef, t) ==
  IF IsLeaf(treedef) THEN <<t>> ELSE kids_up_to(treedef.kids, t.kids, 1)

kids_up_to(ds, ks, k) ==
  IF k > Len(ds) THEN <<>>
  ELSE flatten_up_to(ds[k], ks[k]) \o kids_up_to(ds, ks, k + 1)

RECURSIVE num_leaves(_)
RECURSIVE leaves_before(_, _)
num_leaves(treedef) ==
  IF IsLeaf(treedef) THEN 1
  ELSE leaves_before(treedef.kids, Len(treedef.kids) + 1)

leaves_before(ds, k) ==
  IF k <= 1 THEN 0 ELSE leaves_before(ds, k - 1) + num_leaves(ds[k - 1])

\* treedef.unflatten(lst), reading lst from position off + 1.
RECURSIVE unflatten_from(_, _, _)
unflatten_from(treedef, lst, off) ==
  IF IsLeaf(treedef) THEN lst[off + 1]
  ELSE Node([k \in 1 .. Len(treedef.kids) |->
               unflatten_from(treedef.kids[k], lst,
                              off + leaves_before(treedef.kids, k))])

unflatten(treedef, lst) == unflatten_from(treedef, lst, 0)

\* list.index(name), 1-based; 0 stands for the ValueError of a missing name.
index(lst, name) ==
  IF \E k \in 1 .. Len(lst) : lst[k] = name
    THEN CHOOSE k \in 1 .. Len(lst) :
           lst[k] = name /\ \A j \in 1 .. k - 1 : lst[j] # name
    ELSE 0

\* Mutant of list_set: every item of the list is overwritten.
list_set_all(lst, k, v) == [j \in 1 .. Len(lst) |-> v]

\* lst[k] = v
list_set(lst, k, v) == [lst EXCEPT ![k] = v]

Ok(v) == [error |-> "none", value |-> v]
Raised(e) == [error |-> e, value |-> <<>>]

get_param(name, names, params) ==
  LET flat_names == tree_leaves(names)
      treedef == tree_structure(names)
  IN  IF ~is_prefix(treedef, params) THEN Raised("ValueError")
      ELSE IF index(flat_names, name) = 0 THEN Raised("ValueError")
      ELSE Ok(flatten_up_to(treedef, params)[index(flat_names, name)])

modify_param(name, names, params, new_param) ==
  LET flat_names == tree_leaves(names)
      treedef == tree_structure(names)
      mapped_params == flatten_up_to(treedef, params)
      k == index(flat_names, name)
  IN  IF ~is_prefix(treedef, params) THEN Raised("ValueError")
      ELSE IF k = 0 THEN Raised("ValueError")
      ELSE IF tree_structure(mapped_params[k]) # tree_structure(new_param)
        THEN Raised("AssertionError")
      ELSE Ok(unflatten(treedef, list_set(mapped_params, k, new_param)))

NameTrees ==
  {Leaf("a"),
   Node(<<Leaf("a"), Leaf("b")>>),
   Node(<<Leaf("a"), Node(<<Leaf("b"), Leaf("c")>>)>>)}

ParamVals == {Node(<<>>), Leaf(1), Node(<<Leaf(1), Leaf(2)>>)}

NewVals == {Node(<<>>), Leaf(7), Node(<<Leaf(7), Leaf(8)>>), Node(<<Leaf(7)>>)}

NamesOf(names) == {tree_leaves(names)[k] : k \in 1 .. Len(tree_leaves(names))}

\* The tree of names with every name replaced by the value given to it.
RECURSIVE Fill(_, _)
Fill(names, a) ==
  IF IsLeaf(names) THEN a[names.leaf]
  ELSE Node([k \in 1 .. Len(names.kids) |-> Fill(names.kids[k], a)])

ParamsFor(names) == {Fill(names, a) : a \in [NamesOf(names) -> ParamVals]}

InitModify ==
  /\ st_op = "modify"
  /\ \E names \in NameTrees :
       \E params \in ParamsFor(names), name \in NamesOf(names),
          new_param \in NewVals :
         st_in = [names |-> names, params |-> params, name |-> name,
                  new_param |-> new_param]
  /\ st_out = <<>>
  /\ st_pc = "call"

\* The caller's params object after the call: flatten_up_to hands out a new
\* list, line 704 writes into that list, and unflatten builds new containers.
modify_param_call ==
  /\ st_op = "modify"
  /\ st_pc = "call"
  /\ LET r == modify_param(st_in.name, st_in.names, st_in.params,
                           st_in.new_param)
     IN  /\ st_out' = [error |-> r.error, result |-> r.value,
                       params_after |-> st_in.params,
                       asked |-> "", got |-> <<>>]
         /\ st_pc' = IF r.error = "none" THEN "modified" ELSE "done"
  /\ UNCHANGED <<st_op, st_in>>
  /\ StaxFrame

\* The caller reads some name back from the tree modify_param returned.
get_param_call ==
  /\ st_op = "modify"
  /\ st_pc = "modified"
  /\ \E n \in NamesOf(st_in.names) :
       st_out' = [st_out EXCEPT !.asked = n,
                                !.got = get_param(n, st_in.names,
                                                  st_out.result).value]
  /\ st_pc' = "done"
  /\ UNCHANGED <<st_op, st_in>>
  /\ StaxFrame

(***************************************************************************)
(* Split(num, axis).init_fun(key, input_shape)                             *)
(***************************************************************************)
ShapeDims == {2, 3, 4, 6}
Shapes == UNION {[1 .. n -> ShapeDims] : n \in 1 .. 2}

SplitInputs ==
  {[num |-> n, axis |-> a, input_shape |-> sh] :
     n \in 1 .. 3, a \in -2 .. 1, sh \in Shapes}

InitSplit ==
  /\ st_op = "split"
  /\ \E c \in SplitInputs :
       /\ -Len(c.input_shape) <= c.axis
       /\ c.axis < Len(c.input_shape)
       /\ st_in = c
  /\ st_out = <<>>
  /\ st_pc = "call"

\* The dimension the assertion of line 183 looks at: input_shape[-1].
asserted_dim(input_shape, ax) == input_shape[Len(input_shape)]

\* input_shape[:ax] + (split_dim,) + input_shape[ax + 1:], ax counted from 0.
split_input_shape(input_shape, ax, split_dim) ==
  [k \in 1 .. Len(input_shape) |->
     IF k = ax + 1 THEN split_dim ELSE input_shape[k]]

split_init_fun ==
  /\ st_op = "split"
  /\ st_pc = "call"
  /\ LET ax == st_in.axis % Len(st_in.input_shape)
         split_dim == st_in.input_shape[ax + 1] \div st_in.num
     IN  st_out' =
           IF asserted_dim(st_in.input_shape, ax) % st_in.num # 0
             THEN [error |-> "AssertionError", output_shape |-> <<>>]
             ELSE [error |-> "none",
                   output_shape |->
                     [j \in 1 .. st_in.num |->
                        split_input_shape(st_in.input_shape, ax, split_dim)]]
  /\ st_pc' = "done"
  /\ UNCHANGED <<st_op, st_in>>
  /\ StaxFrame

(***************************************************************************)
(* data_dependent_init(x, target_param_names, name_tree, params, state,    *)
(* apply_fun, flag_names).  Python values that matter for the flags: a     *)
(* string, a list and a tuple.                                             *)
(***************************************************************************)
PyStr(str) == [py |-> "str", s |-> str]
PyList(items) == [py |-> "list", items |-> items]
PyTuple(items) == [py |-> "tuple", items |-> items]

\* The flag each kind of apply_fun looks for in its keyword arguments.
FlagOf(layer) == IF layer = "WeightNormConv" THEN "weightnorm_seed" ELSE "seed"

FlagInputs(layer) ==
  LET one == <<PyStr(FlagOf(layer))>>
      two == <<PyStr(FlagOf(layer)), PyStr("verbose")>>
  IN  {PyStr(FlagOf(layer)), PyList(one), PyTuple(one), PyList(two),
       PyTuple(two)}

\* The names a caller passes as flag_names.
FlagStrings(flag_names) ==
  IF flag_names.py = "str" THEN {flag_names}
  ELSE {flag_names.items[k] : k \in 1 .. Len(flag_names.items)}

DDINameTrees == {Leaf("a"), Node(<<Leaf("a"), Leaf("b")>>)}
DDIParamVals == {Leaf(1), Node(<<Leaf(1), Leaf(2)>>)}

\* The value a layer's seeding puts in its state for a parameter p.
RECURSIVE Seeded(_)
Seeded(p) ==
  IF IsLeaf(p) THEN Leaf(p.leaf + 10)
  ELSE Node([k \in 1 .. Len(p.kids) |-> Seeded(p.kids[k])])

Targets(names) ==
  {<<>>} \cup {<<n>> : n \in NamesOf(names)}
    \cup {p \in NamesOf(names) \X NamesOf(names) : p[1] # p[2]}

InitDDI ==
  /\ st_op = "data_dependent_init"
  /\ \E layer \in {"seeding", "WeightNormConv"}, names \in DDINameTrees :
       \E a \in [NamesOf(names) -> DDIParamVals], t \in Targets(names),
          fl \in FlagInputs(layer) :
         st_in = [layer |-> layer, name_tree |-> names,
                  params |-> Fill(names, a),
                  state |-> Fill(names, [n \in NamesOf(names) |-> Node(<<>>)]),
                  target_param_names |-> t, flag_names |-> fl]
  /\ st_out = <<>>
  /\ st_pc = "call"

\* isinstance(flag_names, list) == False or isinstance(flag_names, tuple) == False
flag_names_to_wrap(flag_names) ==
  (flag_names.py = "list") = FALSE \/ (flag_names.py = "tuple") = FALSE

\* Lines 363-364.
ddi_wrap_flags ==
  /\ st_op = "data_dependent_init"
  /\ st_pc = "call"
  /\ st_out' = [flag_names |-> IF flag_names_to_wrap(st_in.flag_names)
                                 THEN PyTuple(<<st_in.flag_names>>)
                                 ELSE st_in.flag_names,
                k |-> 0, kwargs |-> {}, invoked |-> FALSE,
                states_with_seed |-> <<>>, t |-> 0,
                params |-> st_in.params, error |-> "none"]
  /\ st_pc' = "flags"
  /\ UNCHANGED <<st_op, st_in>>
  /\ StaxFrame

\* One run of the loop of lines 367-368: kwargs[name] = True.  A list cannot
\* be a dictionary key.
ddi_set_flag ==
  /\ st_op = "data_dependent_init"
  /\ st_pc = "flags"
  /\ st_out.k < Len(st_out.flag_names.items)
  /\ LET name == st_out.flag_names.items[st_out.k + 1]
     IN  IF name.py = "list"
           THEN /\ st_out' = [st_out EXCEPT !.error = "TypeError"]
                /\ st_pc' = "done"
           ELSE /\ st_out' = [st_out EXCEPT !.k = @ + 1,
                                            !.kwargs = @ \cup {name}]
                /\ st_pc' = "flags"
  /\ UNCHANGED <<st_op, st_in>>
  /\ StaxFrame

\* What apply_fun does with the flag: WeightNormConv computes the seeded
\* values and then hits "assert 0" (line 269); a seeding layer returns them
\* in its state.
apply_fun(layer, params, state, kwargs) ==
  IF PyStr(FlagOf(layer)) \notin kwargs THEN Ok(state)
  ELSE IF layer = "WeightNormConv" THEN Raised("AssertionError")
  ELSE Ok(Seeded(params))

\* Line 371: apply_fun(params, state, x, **kwargs).  Keywords must be strings.
ddi_apply ==
  /\ st_op = "data_dependent_init"
  /\ st_pc = "flags"
  /\ st_out.k = Len(st_out.flag_names.items)
  /\ IF \E key \in st_out.kwargs : key.py # "str"
       THEN /\ st_out' = [st_out EXCEPT !.error = "TypeError"]
            /\ st_pc' = "done"
       ELSE LET r == apply_fun(st_in.layer, st_in.params, st_in.state,
                               st_out.kwargs)
            IN  /\ st_out' = [st_out EXCEPT !.invoked = TRUE,
                                             !.error = r.error,
                                             !.states_with_seed = r.value]
                /\ st_pc' = IF r.error = "none" THEN "replace" ELSE "done"
  /\ UNCHANGED <<st_op, st_in>>
  /\ StaxFrame

\* One run of the loop of lines 374-376.
ddi_replace ==
  /\ st_op = "data_dependent_init"
  /\ st_pc = "replace"
  /\ st_out.t < Len(st_in.target_param_names)
  /\ LET name == st_in.target_param_names[st_out.t + 1]
         seeded_param == get_param(name, st_in.name_tree,
                                   st_out.states_with_seed)
         r == IF seeded_param.error # "none" THEN seeded_param
              ELSE modify_param(name, st_in.name_tree, st_out.params,
                                seeded_param.value)
     IN  IF r.error # "none"
           THEN /\ st_out' = [st_out EXCEPT !.error = r.error]
                /\ st_pc' = "done"
           ELSE /\ st_out' = [st_out EXCEPT !.t = @ + 1, !.params = r.value]
                /\ st_pc' = "replace"
  /\ UNCHANGED <<st_op, st_in>>
  /\ StaxFrame

\* Line 377: return params.
ddi_return ==
  /\ st_op = "data_dependent_init"
  /\ st_pc = "replace"
  /\ st_out.t = Len(st_in.target_param_names)
  /\ st_pc' = "done"
  /\ UNCHANGED <<st_op, st_in, st_out>>
  /\ StaxFrame

InitStax ==
  /\ SolverIdle
  /\ GradIdle
  /\ InitMasks \/ InitModify \/ InitSplit \/ InitDDI

NextStax ==
  \/ masks_begin
  \/ masks_layer
  \/ masks_finish
  \/ modify_param_call
  \/ get_param_call
  \/ split_init_fun
  \/ ddi_wrap_flags
  \/ ddi_set_flag
  \/ ddi_apply
  \/ ddi_replace
  \/ ddi_return

SpecStax == InitStax /\ [][NextStax]_vars

(***************************************************************************)
(* staxplusplus claims.                                                    *)
(***************************************************************************)
MasksDone == st_op = "masks" /\ st_pc = "done"

\* The units of layer l (l = 0: the inputs) that input unit a reaches through
\* nonzero entries of mask_0 .. mask_(l-1).
RECURSIVE Reached(_, _)
Reached(a, l) ==
  IF l = 0 THEN {a}
  ELSE {c \in 1 .. st_out.layer_sizes[l] :
          \E r \in Reached(a, l - 1) : st_out.masks[l][r][c] = 1}

\* Input unit a reaches output unit b of the head with the given mask.
HasPath(a, head, b) ==
  \E r \in Reached(a, Len(st_out.masks)) : head[r][b] = 1

\* C17: with the sequential method, a path of nonzero mask entries leads from
\* input i to output j of 'mu' or 'alpha' only if input_sel[i] < input_sel[j]
\* (i < j, or i > j when reversed), and 'skip' is 1 exactly there.
C17_MasksAreAutoregressive ==
  MasksDone =>
    /\ Len(st_out.masks) = Len(st_in.hidden_layer_sizes) + 1
    /\ \A a, b \in 1 .. st_in.dim :
         LET before == st_out.input_sel[a] < st_out.input_sel[b]
         IN  /\ before <=> IF st_in.reverse THEN a > b ELSE a < b
             /\ HasPath(a, st_out.mu, b) => before
             /\ HasPath(a, st_out.alpha, b) => before
             /\ st_out.skip[a][b] = 1 <=> before

C17_Witness ==
  /\ MasksDone
  /\ st_in.dim = 3
  /\ st_in.reverse
  /\ st_in.hidden_layer_sizes = <<5, 2>>
  /\ HasPath(3, st_out.mu, 1)
  /\ ~HasPath(3, st_out.mu, 3)

ModifyDone == st_op = "modify" /\ st_pc = "done"

C19_SplitAlongAxis ==
  st_op = "split" /\ st_pc = "done" =>
    LET ax == st_in.axis % Len(st_in.input_shape)
        d == st_in.input_shape[ax + 1]
    IN  /\ st_out.error = "AssertionError" <=> d % st_in.num # 0
        /\ d % st_in.num = 0 =>
             /\ Len(st_out.output_shape) = st_in.num
             /\ \A j \in 1 .. st_in.num :
                  st_out.output_shape[j] =
                    [st_in.input_shape EXCEPT ![ax + 1] = d \div st_in.num]

\* C20: data_dependent_init calls apply_fun with every name of flag_names as
\* a keyword set to True, and returns params with the targets replaced by
\* the seeded values.
C20_EveryFlagTurnedOn ==
  st_op = "data_dependent_init" /\ st_pc = "done" =>
    /\ st_out.invoked
    /\ FlagStrings(st_in.flag_names) \subseteq st_out.kwargs
    /\ st_out.error = "none"
    /\ \A n \in NamesOf(st_in.name_tree) :
         get_param(n, st_in.name_tree, st_out.params).value =
           IF \E k \in 1 .. Len(st_in.target_param_names) :
                st_in.target_param_names[k] = n
             THEN Seeded(get_param(n, st_in.name_tree, st_in.params).value)
             ELSE get_param(n, st_in.name_tree, st_in.params).value

(***************************************************************************)
(* The shape of what the backward rule returns.                            *)
(***************************************************************************)
\* C26: the backward rule returns one entry per positional argument after f
\* (u, x_init, max_iters, then each extra): 3 + k entries for k extras, every
\* entry but the first a single null.
C26_OneEntryPerArgument ==
  GradDone =>
    /\ Len(grads) = 3 + Len(nondiff_args)
    /\ \A j \in 2 .. Len(grads) : grads[j] = Null

(***************************************************************************)
(* nux.flows.compose: reverse_flow, multi_scale and sequential.  A flow is *)
(* called as flow(inputs, rng, sample) and returns a dictionary with the   *)
(* entries "x" and "log_det".  Every call is written to a list of calls,   *)
(* the outermost first.                                                    *)
(***************************************************************************)
MaxC == 4

Seed(k) == [seed |-> k]
Rngs == {Null, Seed(7)}

\* Flows to wrap: they add c to every entry, reverse the order of the
\* entries, or put a 0 in front of them; with sample set they undo that.
ShiftFlow == [kind |-> "shift", c |-> 3, ld |-> 5]
PermFlow == [kind |-> "perm", c |-> 0, ld |-> 2]
PadFlow == [kind |-> "pad", c |-> 0, ld |-> 1]
BaseFlows == {ShiftFlow, PermFlow, PadFlow}

ReverseFlow(flow) == [kind |-> "reverse_flow", flow |-> flow]
MultiScale(flow) == [kind |-> "multi_scale", flow |-> flow]

Vectors == UNION {[1 .. n -> {1, 4}] : n \in 1 .. MaxC}

flow_x(flow, xs, sample) ==
  CASE flow.kind = "shift" ->
         [k \in 1 .. Len(xs) |-> IF sample THEN xs[k] - flow.c
                                           ELSE xs[k] + flow.c]
    [] flow.kind = "perm" -> [k \in 1 .. Len(xs) |-> xs[Len(xs) + 1 - k]]
    [] flow.kind = "pad" ->
         IF sample THEN SubSeq(xs, 2, Len(xs)) ELSE <<0>> \o xs

\* A wrapped flow reports another log_det in each direction.
flow_log_det(flow, sample) == IF sample THEN flow.ld + 10 ELSE flow.ld

CallOf(flow, ins, rng, sample) ==
  [flow |-> flow, x |-> ins.x, rng |-> rng, sample |-> sample]

\* Mutant of py_not: the direction is handed on as it is.
py_not_dropped(sample) == sample

\* not sample
py_not(sample) == ~sample

\* Mutant of split_index: the larger half comes first.
split_index_ceil(c) == (c + 1) \div 2

\* x.shape[-1]//2
split_index(c) == c \div 2

\* flow(inputs, rng, sample): the outputs and the calls made, for a flow to
\* wrap, reverse_flow.call (line 214-218) and multi_scale.call (176-189).
RECURSIVE CallFlow(_, _, _, _)
CallFlow(flow, ins, rng, sample) ==
  LET this == <<CallOf(flow, ins, rng, sample)>>
  IN  CASE flow.kind = "reverse_flow" ->
             LET r == CallFlow(flow.flow, ins, rng, py_not(sample))
             IN  [outputs |-> [r.outputs EXCEPT !.log_det = @ * (-1)],
                  calls |-> this \o r.calls]
        [] flow.kind = "multi_scale" ->
             LET xv == ins.x
                 at == split_index(Len(xv))
                 xa == SubSeq(xv, 1, at)
                 xb == SubSeq(xv, at + 1, Len(xv))
                 r == CallFlow(flow.flow, [ins EXCEPT !.x = xb], rng, sample)
             IN  [outputs |-> [r.outputs EXCEPT !.x = xa \o r.outputs.x],
                  calls |-> this \o r.calls]
        [] OTHER ->
             [outputs |-> [x |-> flow_x(flow, ins.x, sample),
                           log_det |-> flow_log_det(flow, sample)],
              calls |-> this]

InitReverseFlow ==
  /\ st_op = "reverse_flow"
  /\ \E wrapped \in BaseFlows \cup {ReverseFlow(b) : b \in BaseFlows},
        xv \in Vectors, rng \in Rngs, sample \in BOOLEAN :
       st_in = [flow |-> ReverseFlow(wrapped), inputs |-> [x |-> xv],
                rng |-> rng, sample |-> sample]
  /\ st_out = <<>>
  /\ st_pc = "call"

reverse_flow_call ==
  /\ st_op = "reverse_flow"
  /\ st_pc = "call"
  /\ st_out' = CallFlow(st_in.flow, st_in.inputs, st_in.rng, st_in.sample)
  /\ st_pc' = "done"
  /\ UNCHANGED <<st_op, st_in>>
  /\ StaxFrame

InitMultiScale ==
  /\ st_op = "multi_scale"
  /\ \E wrapped \in BaseFlows, xv \in Vectors, rng \in Rngs,
        sample \in BOOLEAN :
       st_in = [flow |-> MultiScale(wrapped), inputs |-> [x |-> xv],
                rng |-> rng, sample |-> sample]
  /\ st_out = <<>>
  /\ st_pc = "call"

multi_scale_call ==
  /\ st_op = "multi_scale"
  /\ st_pc = "call"
  /\ st_out' = [there |-> CallFlow(st_in.flow, st_in.inputs, st_in.rng,
                                   st_in.sample),
                back |-> <<>>]
  /\ st_pc' = "there"
  /\ UNCHANGED <<st_op, st_in>>
  /\ StaxFrame

\* The caller hands the outputs back in the other direction.
multi_scale_call_back ==
  /\ st_op = "multi_scale"
  /\ st_pc = "there"
  /\ st_out' = [st_out EXCEPT
                  !.back = CallFlow(st_in.flow,
                                    [x |-> st_out.there.outputs.x],
                                    st_in.rng, ~st_in.sample)]
  /\ st_pc' = "done"
  /\ UNCHANGED <<st_op, st_in>>
  /\ StaxFrame

(***************************************************************************)
(* sequential.call(inputs, rng, sample, accumulate).  A layer is known by  *)
(* its place in the constructor's argument list (id, from 0).  Dictionaries *)
(* are functions from names.                                               *)
(***************************************************************************)
MaxLayers == 3

\* The layers a constructor may be given: each is known by its place (id),
\* what it emits besides x, and the factor of its map on x.
LayerTuples ==
  UNION {{[j \in 1 .. n |-> [id |-> j - 1, emits |-> ks[j].emits,
                             mul |-> ks[j].mul]] :
            ks \in [1 .. n -> {[emits |-> {}, mul |-> 2],
                               [emits |-> {"log_det"}, mul |-> 3],
                               [emits |-> {"log_det", "flow_norm"},
                                mul |-> 2]}]} : n \in 0 .. MaxLayers}

\* outputs = layer(layer_inputs, rng, sample=sample, **kwargs): maps on x
\* that do not commute, and values under each name that tell the layers and
\* the directions apart.
layer_call(layer, layer_inputs, rng, sample) ==
  [name \in {"x"} \cup layer.emits |->
     CASE name = "x" ->
            [k \in 1 .. Len(layer_inputs["x"]) |->
               IF sample
                 THEN layer_inputs["x"][k] * layer.mul - layer.id - 1
                 ELSE layer_inputs["x"][k] * layer.mul + layer.id + 1]
       [] name = "log_det" ->
            (IF sample THEN -(2 ^ layer.id) ELSE 2 ^ layer.id)
       [] OTHER -> 100 * (2 ^ layer.id)]

\* a.update(b), as a new dictionary
dict_update(a, b) ==
  [name \in DOMAIN a \cup DOMAIN b |->
     IF name \in DOMAIN b THEN b[name] ELSE a[name]]

\* Mutant of iter_layers: the order of construction in both directions.
iter_layers_forward(layers, sample) == layers

\* self.layers if sample == False else self.layers[::-1]
iter_layers(layers, sample) ==
  IF sample = FALSE THEN layers
  ELSE [p \in 1 .. Len(layers) |-> layers[Len(layers) + 1 - p]]

\* Mutant of zip_layers: every layer keeps the key of its place in the
\* constructor.
zip_layers_by_identity(ls, rngs) ==
  [p \in 1 .. Min(Len(ls), Len(rngs)) |-> <<ls[p], rngs[ls[p].id + 1]>>]

\* zip(iter_layers, rngs)
zip_layers(ls, rngs) ==
  [p \in 1 .. Min(Len(ls), Len(rngs)) |-> <<ls[p], rngs[p]>>]

\* The loop of lines 54-63 from pair p on; loc holds the locals.
RECURSIVE seq_loop(_, _, _, _)
seq_loop(pairs, sample, p, loc) ==
  IF p > Len(pairs) THEN loc
  ELSE
    LET layer == pairs[p][1]
        rng == pairs[p][2]
        outputs == layer_call(layer, loc.layer_inputs, rng, sample)
        hit == {name \in DOMAIN loc.accumulated_outputs :
                  name \in DOMAIN outputs}
    IN  seq_loop(pairs, sample, p + 1,
          [layer_inputs |-> dict_update(loc.layer_inputs, [x |-> outputs["x"]]),
           final_outputs |-> dict_update(loc.final_outputs, outputs),
           accumulated_outputs |->
             [name \in DOMAIN loc.accumulated_outputs |->
                IF name \in hit
                  THEN loc.accumulated_outputs[name] + outputs[name]
                  ELSE loc.accumulated_outputs[name]],
           accumulated_found |->
             [name \in DOMAIN loc.accumulated_found |->
                loc.accumulated_found[name] \/ name \in hit],
           made |-> Append(loc.made,
                           [layer |-> layer, x |-> loc.layer_inputs["x"],
                            rng |-> rng, sample |-> sample])])

\* sequential.call: the dictionary returned and the calls made to layers.
sequential_call_fn(layers, ins, rng, sample, accumulate) ==
  LET names == {accumulate[k] : k \in 1 .. Len(accumulate)}
      rngs == [j \in 1 .. Len(layers) |->
                 IF rng = Null THEN Null
                 ELSE [seed |-> rng.seed, part |-> j - 1]]
      pairs == zip_layers(iter_layers(layers, sample), rngs)
      loc == seq_loop(pairs, sample, 1,
               [layer_inputs |-> ins,
                final_outputs |-> ins,
                accumulated_outputs |-> [name \in names |-> 0],
                accumulated_found |-> [name \in names |-> FALSE],
                made |-> <<>>])
      found == {name \in names : loc.accumulated_found[name]}
  IN  [outputs |-> dict_update(loc.final_outputs,
                               [name \in found |->
                                  loc.accumulated_outputs[name]]),
       made |-> loc.made]

InitSequential ==
  /\ st_op = "sequential"
  /\ \E layers \in LayerTuples, rng \in Rngs, sample \in BOOLEAN,
        ins \in {[x |-> <<1>>],
                 [x |-> <<1>>, log_det |-> 50],
                 [x |-> <<1>>, log_det |-> 50, flow_norm |-> 70]},
        accumulate \in {<<>>, <<"log_det">>, <<"log_det", "flow_norm">>} :
       st_in = [layers |-> layers, inputs |-> ins, rng |-> rng,
                sample |-> sample, accumulate |-> accumulate]
  /\ st_out = <<>>
  /\ st_pc = "call"

sequential_call ==
  /\ st_op = "sequential"
  /\ st_pc = "call"
  /\ st_out' = [sample |-> st_in.sample,
                now |-> sequential_call_fn(st_in.layers, st_in.inputs,
                                           st_in.rng, st_in.sample,
                                           st_in.accumulate),
                before |-> <<>>]
  /\ st_pc' = "once"
  /\ UNCHANGED <<st_op, st_in>>
  /\ StaxFrame

\* The caller calls again with the same arguments, in the other direction.
sequential_call_opposite ==
  /\ st_op = "sequential"
  /\ st_pc = "once"
  /\ st_out' = [sample |-> ~st_out.sample,
                now |-> sequential_call_fn(st_in.layers, st_in.inputs,
                                           st_in.rng, ~st_out.sample,
                                           st_in.accumulate),
                before |-> st_out.now]
  /\ st_pc' = "done"
  /\ UNCHANGED <<st_op, st_in>>
  /\ StaxFrame

(***************************************************************************)
(* init_fun and apply_fun of staxplusplus.sequential.  The layers         *)
(* are those of LayerTuples: layer.id names the layer, layer.mul is the    *)
(* factor of its maps on the last dimension and on the data.               *)
(***************************************************************************)
\* The loop of init_fun from layer k on; acc holds names, params, states.
\* A layer's init_fun returns its name, the shape it maps input_shape to, a
\* param recording the shape and key it was given, and a fresh state.
RECURSIVE stax_init_loop(_, _, _, _, _)
stax_init_loop(layers, key, input_shape, k, acc) ==
  IF k > Len(layers)
    THEN <<acc.names, input_shape, acc.params, acc.states>>
  ELSE
    LET layer == layers[k]
        last == Len(input_shape)
    IN  stax_init_loop(layers, Append(key, 0),
          [j \in 1 .. last |->
             IF j = last THEN input_shape[j] * layer.mul + layer.id
             ELSE input_shape[j]],
          k + 1,
          [names |-> Append(acc.names, layer.id),
           params |-> Append(acc.params,
                             [id |-> layer.id, in_shape |-> input_shape,
                              key |-> Append(key, 1)]),
           states |-> Append(acc.states,
                             [id |-> layer.id, by |-> layer.id, count |-> 0,
                              seen |-> -1, key |-> Null])])

\* Mutant of stax_apply_loop: the updated states are collected latest first.
RECURSIVE stax_apply_loop_prepend(_, _, _, _, _, _, _)
stax_apply_loop_prepend(layers, params, state, keys, ins, k, updated_states) ==
  IF k > Min(Min(Len(layers), Len(params)), Min(Len(state), Len(keys)))
    THEN <<ins, updated_states>>
  ELSE
    stax_apply_loop_prepend(layers, params, state, keys,
      ins * layers[k].mul + params[k].in_shape[Len(params[k].in_shape)],
      k + 1,
      <<[id |-> state[k].id, by |-> layers[k].id,
         count |-> state[k].count + 1, seen |-> ins, key |-> keys[k]]>>
        \o updated_states)

\* The loop of apply_fun from the k-th of zip(apply_funs, params, state,
\* keys) on.  A layer's apply_fun maps the data with its factor and its
\* param, and returns its state with the call counted and the data seen.
RECURSIVE stax_apply_loop(_, _, _, _, _, _, _)
stax_apply_loop(layers, params, state, keys, ins, k, updated_states) ==
  IF k > Min(Min(Len(layers), Len(params)), Min(Len(state), Len(keys)))
    THEN <<ins, updated_states>>
  ELSE
    stax_apply_loop(layers, params, state, keys,
      ins * layers[k].mul + params[k].in_shape[Len(params[k].in_shape)],
      k + 1,
      Append(updated_states,
             [id |-> state[k].id, by |-> layers[k].id,
              count |-> state[k].count + 1, seen |-> ins, key |-> keys[k]]))

\* names, output_shape, params, state = init_fun(key, input_shape)
stax_sequential_init_fun ==
  /\ st_op = "stax_sequential"
  /\ st_pc = "call"
  /\ LET ret == stax_init_loop(st_in.layers, <<7>>, st_in.input_shape, 1,
                               [names |-> <<>>, params |-> <<>>,
                                states |-> <<>>])
     IN  st_out' = [init |-> ret, state |-> ret[4], before |-> <<>>,
                    applied |-> <<>>]
  /\ st_pc' = "ready"
  /\ UNCHANGED <<st_op, st_in>>
  /\ StaxFrame

\* output, updated_state = apply_fun(params, state, inputs, key=key), with
\* the params of init_fun and the state of init_fun or of the last call.
stax_sequential_apply_fun ==
  /\ st_op = "stax_sequential"
  /\ st_pc \in {"ready", "again"}
  /\ LET n_layers == Len(st_in.layers)
         keys == [j \in 1 .. n_layers |->
                    IF st_in.key = Null THEN Null
                    ELSE [seed |-> st_in.key.seed, part |-> j - 1]]
         ret == stax_apply_loop(st_in.layers, st_out.init[3], st_out.state,
                                keys, st_in.inputs, 1, <<>>)
     IN  st_out' = [st_out EXCEPT !.applied = ret, !.state = ret[2],
                                  !.before = st_out.state]
  /\ st_pc' = IF st_pc = "ready" THEN "again" ELSE "done"
  /\ UNCHANGED <<st_op, st_in>>
  /\ StaxFrame

(***************************************************************************)
(* ActNorm: one closure, its variable multiply_by, and the flows init_fun  *)
(* has returned.  Every flow holds the closure's one apply_fun.            *)
(***************************************************************************)
MaxInits == 2

\* Mutant of actnorm_multiply_by: the last axis is counted too.
RECURSIVE actnorm_multiply_by_all_axes(_, _, _)
actnorm_multiply_by_all_axes(x_shape, batch_depth, idx) ==
  IF idx >= Len(x_shape) THEN 1
  ELSE (IF idx >= batch_depth THEN x_shape[idx + 1] ELSE 1)
         * actnorm_multiply_by_all_axes(x_shape, batch_depth, idx + 1)

\* jnp.prod([s for i, s in enumerate(x.shape)
\*           if i >= batch_depth and i < len(x.shape) - 1]), from index idx
RECURSIVE actnorm_multiply_by(_, _, _)
actnorm_multiply_by(x_shape, batch_depth, idx) ==
  IF idx >= Len(x_shape) THEN 1
  ELSE (IF idx >= batch_depth /\ idx < Len(x_shape) - 1
          THEN x_shape[idx + 1] ELSE 1)
         * actnorm_multiply_by(x_shape, batch_depth, idx + 1)

\* outputs, flow = init_fun(key, inputs, batched, batch_depth): log_s is the
\* sum of the params' log_s, which the data decides.
actnorm_init_fun ==
  /\ st_op = "actnorm"
  /\ Len(st_out.flows) < MaxInits
  /\ \E shape \in {<<2>>, <<3, 2>>, <<2, 3, 2>>, <<3, 3, 2>>},
        batched \in BOOLEAN, batch_depth \in 1 .. 2, log_s \in {-2, 3} :
       /\ batched => Len(shape) > batch_depth
       /\ LET x_shape == IF batched = FALSE
                           THEN [j \in 1 .. batch_depth |-> 1] \o shape
                           ELSE shape
              scale == actnorm_multiply_by(x_shape, batch_depth, 0)
          IN  st_out' =
                [st_out EXCEPT
                   !.multiply_by = [val |-> scale],
                   !.flows = Append(@,
                     [log_s |-> log_s,
                      given |-> [shape |-> shape, batched |-> batched,
                                 batch_depth |-> batch_depth],
                      outputs |-> [log_det |-> (-log_s) * scale]])]
  /\ st_pc' = "live"
  /\ UNCHANGED <<st_op, st_in>>
  /\ StaxFrame

\* outputs, state = flow.apply(flow.params, flow.state, inputs) on any flow
\* returned so far.
actnorm_apply_fun ==
  /\ st_op = "actnorm"
  /\ \E k \in 1 .. Len(st_out.flows) :
       st_out' =
         [st_out EXCEPT
            !.last = [flow |-> k, inits |-> Len(st_out.flows),
                      log_det |->
                        IF st_out.multiply_by = Null
                          THEN Raised("TypeError")
                          ELSE Ok((-st_out.flows[k].log_s)
                                    * st_out.multiply_by.val)]]
  /\ UNCHANGED <<st_op, st_in, st_pc>>
  /\ StaxFrame

InitFlows ==
  /\ SolverIdle
  /\ GradIdle
  /\ \/ InitReverseFlow
     \/ InitMultiScale
     \/ InitSequential
     \/ /\ st_op = "stax_sequential"
        /\ \E layers \in LayerTuples \ {<<>>},
              input_shape \in {<<2>>, <<3, 2>>}, ins \in {1, 2},
              key \in Rngs :
             st_in = [layers |-> layers, input_shape |-> input_shape,
                      inputs |-> ins, key |-> key]
        /\ st_out = <<>>
        /\ st_pc = "call"
     \/ /\ st_op = "actnorm"
        /\ st_in = <<>>
        /\ st_out = [multiply_by |-> Null, flows |-> <<>>, last |-> Null]
        /\ st_pc = "closure"

NextFlows ==
  \/ reverse_flow_call
  \/ multi_scale_call
  \/ multi_scale_call_back
  \/ sequential_call
  \/ sequential_call_opposite
  \/ stax_sequential_init_fun
  \/ stax_sequential_apply_fun
  \/ actnorm_init_fun
  \/ actnorm_apply_fun

SpecFlows == InitFlows /\ [][NextFlows]_vars

\* The calls of the list made to the given flow.
CallsTo(made, flow) == {k \in 1 .. Len(made) : made[k].flow = flow}

\* C21: reverse_flow calls the wrapped flow once, with the same inputs and
\* rng and the opposite direction, and returns its outputs with log_det
\* negated; reversing twice gives the x and log_det of the flow itself.
C21_ReverseFlowReverses ==
  st_op = "reverse_flow" /\ st_pc = "done" =>
    LET wrapped == st_in.flow.flow
        direct == CallFlow(wrapped, st_in.inputs, st_in.rng, ~st_in.sample)
    IN  /\ Cardinality(CallsTo(st_out.calls, wrapped)) = 1
        /\ st_out.calls[2] =
             CallOf(wrapped, st_in.inputs, st_in.rng, ~st_in.sample)
        /\ st_out.outputs.x = direct.outputs.x
        /\ st_out.outputs.log_det = -direct.outputs.log_det
        /\ wrapped.kind = "reverse_flow" =>
             st_out.outputs = CallFlow(wrapped.flow, st_in.inputs, st_in.rng,
                                       st_in.sample).outputs

C21_Witness ==
  /\ st_op = "reverse_flow"
  /\ st_pc = "done"
  /\ st_in.flow.flow = ReverseFlow(ShiftFlow)
  /\ st_in.sample
  /\ st_out.outputs.log_det = 15
  /\ st_out.outputs.x # st_in.inputs.x

MultiScaleDone == st_op = "multi_scale" /\ st_pc = "done"

\* One call of multi_scale leaves the first floor(C/2) entries alone and
\* hands the wrapped flow the other entries, once.
HalfKept(inputs_x, result, wrapped) ==
  LET half == Len(inputs_x) \div 2
  IN  /\ SubSeq(result.outputs.x, 1, half) = SubSeq(inputs_x, 1, half)
      /\ Cardinality(CallsTo(result.calls, wrapped)) = 1
      /\ result.calls[2].x = SubSeq(inputs_x, half + 1, Len(inputs_x))
      /\ Len(result.calls[2].x) = Len(inputs_x) - half

\* The wrapped flow gives back what it was given when called forward and
\* then with sample set.
RoundTrips(wrapped, xb) == flow_x(wrapped, flow_x(wrapped, xb, FALSE), TRUE) = xb

\* C22 as stated: the first half is kept in both directions, the flow sees
\* only the rest, and forward then sample returns x whenever the wrapped
\* flow round-trips.
C22_MultiScaleRoundTrip ==
  MultiScaleDone =>
    LET wrapped == st_in.flow.flow
        xv == st_in.inputs.x
        xb == SubSeq(xv, Len(xv) \div 2 + 1, Len(xv))
    IN  /\ HalfKept(xv, st_out.there, wrapped)
        /\ HalfKept(st_out.there.outputs.x, st_out.back, wrapped)
        /\ ~st_in.sample /\ RoundTrips(wrapped, xb)
             => st_out.back.outputs.x = xv

\* C22 amended: the same, for a wrapped flow that also returns as many
\* entries as it is given.
C22_MultiScaleRoundTripSameSize ==
  MultiScaleDone =>
    LET wrapped == st_in.flow.flow
        xv == st_in.inputs.x
        xb == SubSeq(xv, Len(xv) \div 2 + 1, Len(xv))
    IN  /\ HalfKept(xv, st_out.there, wrapped)
        /\ HalfKept(st_out.there.outputs.x, st_out.back, wrapped)
        /\ (/\ ~st_in.sample
            /\ RoundTrips(wrapped, xb)
            /\ Len(flow_x(wrapped, xb, FALSE)) = Len(xb))
             => st_out.back.outputs.x = xv

C22_Witness ==
  /\ MultiScaleDone
  /\ ~st_in.sample
  /\ st_in.flow.flow = PermFlow
  /\ st_in.inputs.x = <<1, 4, 1, 4>>
  /\ st_out.there.outputs.x = <<1, 4, 4, 1>>
  /\ st_out.back.outputs.x = <<1, 4, 1, 4>>

SequentialReturned == st_op = "sequential" /\ st_pc \in {"once", "done"}

\* The sum of what the layers of the list emit under the name.
RECURSIVE Emitted(_, _, _, _)
Emitted(layers, name, sample, k) ==
  IF k > Len(layers) THEN 0
  ELSE (IF name \in layers[k].emits
          THEN layer_call(layers[k], st_in.inputs, st_in.rng, sample)[name]
          ELSE 0)
         + Emitted(layers, name, sample, k + 1)

\* C24: the layers are called in the order of construction, or in the reverse
\* order when sample is set; each gets the x the one before it returned; an
\* accumulated name is the sum over the layers that emitted it, or what the
\* inputs had (if anything) when no layer did.
C24_SequentialOrderAndSums ==
  SequentialReturned =>
    LET layers == st_in.layers
        n == Len(layers)
        s == st_out.sample
        made == st_out.now.made
        outputs == st_out.now.outputs
        ret(p) == IF p = 0 THEN st_in.inputs.x
                  ELSE layer_call(made[p].layer, [x |-> made[p].x],
                                  made[p].rng, s)["x"]
    IN  /\ Len(made) = n
        /\ \A p \in 1 .. n :
             /\ made[p].layer = layers[IF s THEN n + 1 - p ELSE p]
             /\ made[p].sample = s
             /\ made[p].x = ret(p - 1)
        /\ outputs["x"] = ret(n)
        /\ \A k \in 1 .. Len(st_in.accumulate) :
             LET name == st_in.accumulate[k]
             IN  IF \E p \in 1 .. n : name \in layers[p].emits
                   THEN outputs[name] = Emitted(layers, name, s, 1)
                   ELSE /\ name \in DOMAIN outputs <=>
                             name \in DOMAIN st_in.inputs
                        /\ name \in DOMAIN st_in.inputs =>
                             outputs[name] = st_in.inputs[name]

C24_Witness ==
  /\ st_op = "sequential"
  /\ st_pc = "done"
  /\ st_out.sample
  /\ Len(st_in.layers) = 3
  /\ st_in.accumulate = <<"log_det", "flow_norm">>
  /\ st_out.now.made[1].layer.id = 2
  /\ st_in.layers[1].emits = {"log_det"}
  /\ st_in.layers[2].emits = {}
  /\ st_in.layers[3].emits = {"log_det"}
  /\ st_out.now.outputs["log_det"] = -5
  /\ "flow_norm" \in DOMAIN st_in.inputs
  /\ st_out.now.outputs["flow_norm"] = 70

\* The part of the split key that the layer with the given id was called
\* with.
KeyOf(made, id) ==
  LET p == CHOOSE q \in 1 .. Len(made) : made[q].layer.id = id
  IN  made[p].rng.part

\* C25: with a key given, the layer built at place j (from 0) of n gets part
\* j of the split key in the forward direction and part n-1-j when sampling:
\* the same part in both directions only if j = n-1-j.
C25_KeysFollowPosition ==
  st_op = "sequential" /\ st_pc = "done" /\ st_in.rng # Null =>
    LET n == Len(st_in.layers)
        fwd == IF st_out.sample THEN st_out.before.made ELSE st_out.now.made
        smp == IF st_out.sample THEN st_out.now.made ELSE st_out.before.made
    IN  \A j \in 0 .. n - 1 :
          /\ KeyOf(fwd, j) = j
          /\ KeyOf(smp, j) = n - 1 - j
          /\ KeyOf(fwd, j) = KeyOf(smp, j) <=> j = n - 1 - j

C25_Witness ==
  /\ st_op = "sequential"
  /\ st_pc = "done"
  /\ st_in.rng # Null
  /\ Len(st_in.layers) = 3
  /\ st_out.sample
  /\ KeyOf(st_out.now.made, 0) = 2
  /\ KeyOf(st_out.before.made, 0) = 0
  /\ KeyOf(st_out.now.made, 1) = KeyOf(st_out.before.made, 1)

\* The shape that leaves layer k (k = 0: the shape given to init_fun).
RECURSIVE ShapeAfter(_, _, _)
ShapeAfter(layers, shape, k) ==
  IF k = 0 THEN shape
  ELSE LET sh == ShapeAfter(layers, shape, k - 1)
       IN  [sh EXCEPT ![Len(sh)] = sh[Len(sh)] * layers[k].mul + layers[k].id]

\* The data that leaves layer k (k = 0: the inputs given to apply_fun).
RECURSIVE ValueAfter(_, _, _, _)
ValueAfter(layers, shape, v, k) ==
  IF k = 0 THEN v
  ELSE LET sh == ShapeAfter(layers, shape, k - 1)
       IN  ValueAfter(layers, shape, v, k - 1) * layers[k].mul + sh[Len(sh)]

\* C23: init_fun gives every layer the shape the layer before it returned
\* and returns names, params and states in layer order; apply_fun gives
\* every layer the data the layer before it returned and returns one state
\* per layer, entry k being the state layer k returned.
C23_SequentialThreads ==
  st_op = "stax_sequential" /\ st_pc # "call" =>
    LET layers == st_in.layers
        n == Len(layers)
        ret == st_out.init
    IN  /\ Len(ret[1]) = n /\ Len(ret[3]) = n /\ Len(ret[4]) = n
        /\ ret[2] = ShapeAfter(layers, st_in.input_shape, n)
        /\ \A k \in 1 .. n :
             /\ ret[1][k] = layers[k].id
             /\ ret[3][k].id = layers[k].id
             /\ ret[3][k].in_shape = ShapeAfter(layers, st_in.input_shape,
                                                k - 1)
             /\ ret[4][k].id = layers[k].id
        /\ st_pc \in {"again", "done"} =>
             /\ st_out.applied[1]
                  = ValueAfter(layers, st_in.input_shape, st_in.inputs, n)
             /\ Len(st_out.applied[2]) = n
             /\ \A k \in 1 .. n :
                  LET got == st_out.applied[2][k]
                  IN  /\ got.by = layers[k].id
                      /\ got.id = layers[k].id
                      /\ got.count = st_out.before[k].count + 1
                      /\ got.seen = ValueAfter(layers, st_in.input_shape,
                                               st_in.inputs, k - 1)

C23_Witness ==
  /\ st_op = "stax_sequential"
  /\ st_pc = "done"
  /\ Len(st_in.layers) = 3
  /\ st_in.input_shape = <<3, 2>>
  /\ st_out.init[2] = <<3, 20>>
  /\ st_out.applied[2][3].count = 2
  /\ st_out.applied[2][3].seen # st_out.applied[2][2].seen
  /\ st_out.applied[2][3].by = 2

\* The product of the entries a .. b of a shape.
RECURSIVE ProdBetween(_, _, _)
ProdBetween(shape, a, b) ==
  IF a > b THEN 1 ELSE shape[a] * ProdBetween(shape, a + 1, b)

\* The product of the dimensions of an init_fun input that are neither batch
\* dimensions nor the channel (last) dimension.
NonBatchNonChannel(given) ==
  ProdBetween(given.shape,
              IF given.batched THEN given.batch_depth + 1 ELSE 1,
              Len(given.shape) - 1)

\* C27: multiply_by is unset exactly until init_fun has run; every apply_fun
\* call, on whichever flow and also the one inside init_fun, scales log_det
\* by the product of the non-batch, non-channel dimensions of the input of
\* the latest init_fun call made before it.
C27_SharedScale ==
  st_op = "actnorm" =>
    LET flows == st_out.flows
    IN  /\ st_out.multiply_by = Null <=> Len(flows) = 0
        /\ st_out.multiply_by = Null <=> st_pc = "closure"
        /\ \A k \in 1 .. Len(flows) :
             flows[k].outputs.log_det
               = (-flows[k].log_s) * NonBatchNonChannel(flows[k].given)
        /\ st_out.last # Null =>
             st_out.last.log_det
               = Ok((-flows[st_out.last.flow].log_s)
                      * NonBatchNonChannel(flows[st_out.last.inits].given))

C27_Witness ==
  /\ st_op = "actnorm"
  /\ Len(st_out.flows) = 2
  /\ st_out.last # Null
  /\ st_out.last.flow = 1
  /\ st_out.last.inits = 2
  /\ st_out.flows[1].given = [shape |-> <<2, 3, 2>>, batched |-> FALSE,
                              batch_depth |-> 1]
  /\ st_out.flows[2].given = [shape |-> <<3, 3, 2>>, batched |-> TRUE,
                              batch_depth |-> 1]
  /\ st_out.flows[1].outputs.log_det = (-st_out.flows[1].log_s) * 6
  /\ st_out.last.log_det = Ok((-st_out.flows[1].log_s) * 3)

====
